---------------------------- MODULE Spec2Model ----------------------------
(***************************************************************************)
(* A model of gulpfile.js: the tasks clean, copy, html, style, images,     *)
(* buildJs, reload and serve, the two pipelines exports.build and          *)
(* exports.default composed with series/parallel, and the four watch rules *)
(* that serve registers.                                                   *)
(*                                                                         *)
(* A file is a record [dirs, name, ext]; a glob is a record                *)
(* [dirs, name, exts] whose dirs may hold the segments "*" and "**".       *)
(* The source tree is a function from the files of Universe to their       *)
(* status ("absent", "ok", or "broken": present, but the plugin that       *)
(* transforms it raises an error on it); the output tree is a set of       *)
(* files.                                                                  *)
(***************************************************************************)
EXTENDS Naturals, Sequences, FiniteSets

\* Number of file-system edits the developer makes in one behaviour.
MaxEdits == 2

----------------------------------------------------------------------------
\* Files and globs

File(dirs, name, ext) == [dirs |-> dirs, name |-> name, ext |-> ext]

Glob(dirs, name, exts) == [dirs |-> dirs, name |-> name, exts |-> exts]

AnyExt == {"*"}

indexPug == File(<<"source", "pages">>, "index", "pug")
aboutPug == File(<<"source", "pages">>, "about", "pug")
styleLess == File(<<"source", "less">>, "style", "less")
scriptJs == File(<<"source", "js">>, "script", "js")
aPng == File(<<"source", "img">>, "a", "png")
bSvg == File(<<"source", "img", "icons">>, "b", "svg")
fWoff == File(<<"source", "fonts">>, "f", "woff")

\* The source files of the project the model builds.
Universe == {indexPug, aboutPug, styleLess, scriptJs, aPng, bSvg, fWoff}

\* The order in which a stream emits the files it selected.
Order == <<aboutPug, indexPug, styleLess, scriptJs, aPng, bSvg, fWoff>>

Status == {"absent", "ok", "broken"}

\* A file left in the output directory by an earlier build.
oldHtml == File(<<"build">>, "old", "html")

IsMagic(seg) == seg \in {"*", "**"}

RECURSIVE DirsMatch(_, _)
DirsMatch(pat, dirs) ==
  IF pat = <<>> THEN dirs = <<>>
  ELSE IF Head(pat) = "**"
    THEN \/ DirsMatch(Tail(pat), dirs)
         \/ dirs # <<>> /\ DirsMatch(pat, Tail(dirs))
    ELSE /\ dirs # <<>>
         /\ Head(pat) = "*" \/ Head(pat) = Head(dirs)
         /\ DirsMatch(Tail(pat), Tail(dirs))

Matches(g, f) ==
  /\ DirsMatch(g.dirs, f.dirs)
  /\ g.name = "*" \/ g.name = f.name
  /\ g.exts = AnyExt \/ f.ext \in g.exts

MatchesAny(globs, f) == \E g \in globs : Matches(g, f)

\* The directories of a glob before its first magic segment.
RECURSIVE GlobParent(_)
GlobParent(pat) ==
  IF pat = <<>> \/ IsMagic(Head(pat)) THEN <<>>
  ELSE <<Head(pat)>> \o GlobParent(Tail(pat))

\* dest(dir): the file under dir at its path relative to base.
Dest(dir, base, f, name, ext) ==
  File(dir \o SubSeq(f.dirs, Len(base) + 1, Len(f.dirs)), name, ext)

----------------------------------------------------------------------------
\* The tasks

copyGlobsWithImages ==
  {Glob(<<"source", "fonts", "**">>, "*", {"woff", "woff2", "eot", "ttf"}),
   Glob(<<"source", "img", "**">>, "*", {"png"})}
copyGlobs == {Glob(<<"source", "fonts", "**">>, "*", {"woff", "woff2", "eot", "ttf"})}

htmlGlobs == {Glob(<<"source", "pages">>, "*", {"pug"})}

styleGlobs == {Glob(<<"source", "less">>, "style", {"less"})}

imagesGlobs == {Glob(<<"source", "img", "**">>, "*", {"png", "jpg", "svg"})}

buildJsGlobs == {Glob(<<"source", "js">>, "script", {"js"})}

Tasks == {"clean", "copy", "images", "html", "style", "buildJs", "serve"}

\* The tasks that are a stream from src(...) to dest(...).
StreamTasks == {"copy", "images", "html", "style", "buildJs"}

Globs(t) ==
  CASE t = "copy" -> copyGlobs
    [] t = "html" -> htmlGlobs
    [] t = "style" -> styleGlobs
    [] t = "images" -> imagesGlobs
    [] t = "buildJs" -> buildJsGlobs
    [] OTHER -> {}

\* The tasks whose stream starts with .pipe(plumber()).
PlumbedNoHtml == {"style", "buildJs"}
Plumbed == {"html", "style", "buildJs"}

\* The base of the files a task selects: the base option of copy, and the
\* glob parent for the others.
Base(t, f) ==
  IF t = "copy" THEN <<"source">>
  ELSE GlobParent((CHOOSE g \in Globs(t) : Matches(g, f)).dirs)

copyOut(f) == {Dest(<<"build">>, Base("copy", f), f, f.name, f.ext)}

htmlOut(f) == {Dest(<<"build">>, Base("html", f), f, f.name, "html")}

imagesOut(f) == {Dest(<<"build", "img">>, Base("images", f), f, f.name, f.ext)}

styleCss(f) == Dest(<<"build", "css">>, Base("style", f), f, f.name, "css")

styleMinCss(f) == Dest(<<"build", "css">>, Base("style", f), f, "style.min", "css")

styleOut(f) == {styleCss(f), styleMinCss(f)}

buildJsOut(f) ==
  {File(<<"build", "js">>, "script", "js"), File(<<"build", "js">>, "script.min", "js")}

\* The output files task t writes for source file f.
Out(t, f) ==
  CASE t = "copy" -> copyOut(f)
    [] t = "html" -> htmlOut(f)
    [] t = "images" -> imagesOut(f)
    [] t = "style" -> styleOut(f)
    [] t = "buildJs" -> buildJsOut(f)
    [] OTHER -> {}

\* The files a stream processes to its end, of the files `in` it selected:
\* plumber() keeps the stream going past a file whose transform raises an
\* error; without it the stream stops at the first such file.
Pos(f) == CHOOSE i \in 1..Len(Order) : Order[i] = f

Selected(in) == {f \in Universe : in[f] # "absent"}

Bad(in) == {f \in Universe : in[f] = "broken"}

Processed(t, in) ==
  IF t \in Plumbed THEN Selected(in) \ Bad(in)
  ELSE {f \in Selected(in) : \A b \in Bad(in) : Pos(f) < Pos(b)}

\* Whether the stream signals completion rather than an error.
Succeeds(t, in) == t \in Plumbed \/ Bad(in) = {}

OutAll(t, fs) == UNION {Out(t, f) : f \in fs}

\* The steps of the style stream after src and plumber: less, postcss and
\* dest; minify, rename and dest; server.stream().
stylePipeEarlyStream == <<"compile", "stream", "minify">>
stylePipe == <<"compile", "minify", "stream">>

----------------------------------------------------------------------------
\* The pipelines

exportsBuild == <<{"clean"}, {"copy", "images"}, {"html", "style", "buildJs"}>>

exportsDefault == exportsBuild \o <<{"serve"}>>

Pipeline(e) == IF e = "build" THEN exportsBuild ELSE exportsDefault

----------------------------------------------------------------------------
\* The watch rules of serve, each named by the task it runs before reload

Rules == {"html", "style", "buildJs", "images"}

watches ==
  [r \in Rules |->
    CASE r = "html" ->
           [globs |-> {Glob(<<"source", "pages", "**">>, "*", {"pug"}),
                       Glob(<<"source", "pug", "**">>, "*", {"pug"})},
            events |-> {"add", "change", "unlink"}, delay |-> 50]
      [] r = "style" ->
           [globs |-> {Glob(<<"source", "less", "**">>, "*", {"less"})},
            events |-> {"add", "change", "unlink"}, delay |-> 50]
      [] r = "buildJs" ->
           [globs |-> {Glob(<<"source", "js", "**">>, "*", {"js"})},
            events |-> {"add", "change", "unlink"}, delay |-> 50]
      [] r = "images" ->
           [globs |-> {Glob(<<"source", "img">>, "*", AnyExt)},
            events |-> {"all"}, delay |-> 50]]

\* Whether rule r reacts to an event of the given kind on file f.
Watched(r, f, kind) ==
  /\ MatchesAny(watches[r].globs, f)
  /\ kind \in watches[r].events \/ "all" \in watches[r].events

\* The number of pending timeouts of a rule after an event: the debounce
\* clears the pending timeout and sets a new one of delay ms.
DebounceNoClear(pending) == pending + 1
Debounce(pending) == 1

----------------------------------------------------------------------------
VARIABLES
  src,        \* the source tree: the status of each file of Universe
  buildDir,   \* the output tree: the set of files under build
  entry,      \* the pipeline that was invoked: "build" or "default"
  stage,      \* the stage of the pipeline that was started last (0: none)
  outcome,    \* of the pipeline: "running", "done" or "failed"
  task,       \* each task: "idle", "running", "ok" or "failed"
  input,      \* the files each stream task selected when it last started
  written,    \* the files each stream task wrote in its current or last run
  streamed,   \* the files passed to server.stream() in that run
  stylePc,    \* the step of stylePipe the style stream is at
  delFailed,  \* whether del('build') failed
  timer,      \* per rule: the pending debounce timeouts
  phase,      \* per rule: "idle", "task" or "reload"
  queued,     \* per rule: an event arrived while its tasks were running
  evts,       \* per rule: the events received
  bursts,     \* per rule: the events received with no timeout pending
  runs,       \* per rule: the runs of its task that were started
  reloads,    \* per rule: the runs of reload
  edits,      \* the edits made
  last        \* the file edited last

vars ==
  <<src, buildDir, entry, stage, outcome, task, input, written, streamed,
    stylePc, delFailed, timer, phase, queued, evts, bursts, runs, reloads,
    edits, last>>

pipeVars == <<entry, stage, outcome>>

ruleVars == <<timer, phase, queued, evts, bursts, runs, reloads>>

envVars == <<src, edits, last>>

noFile == File(<<>>, "", "")

NoInput == [f \in Universe |-> "absent"]

\* What src(Globs(t)) selects from the source tree.
Snapshot(t) == [f \in Universe |-> IF MatchesAny(Globs(t), f) THEN src[f] ELSE "absent"]

watching == task["serve"] = "running"

Init ==
  /\ \E bad \in SUBSET {indexPug, aPng} :
       src = [f \in Universe |-> IF f \in bad THEN "broken" ELSE "ok"]
  /\ buildDir = {oldHtml}
  /\ entry \in {"build", "default"}
  /\ stage = 0
  /\ outcome = "running"
  /\ task = [t \in Tasks |-> "idle"]
  /\ input = [t \in StreamTasks |-> NoInput]
  /\ written = [t \in StreamTasks |-> {}]
  /\ streamed = [t \in StreamTasks |-> {}]
  /\ stylePc = 0
  /\ delFailed = FALSE
  /\ timer = [r \in Rules |-> 0]
  /\ phase = [r \in Rules |-> "idle"]
  /\ queued = [r \in Rules |-> FALSE]
  /\ evts = [r \in Rules |-> 0]
  /\ bursts = [r \in Rules |-> 0]
  /\ runs = [r \in Rules |-> 0]
  /\ reloads = [r \in Rules |-> 0]
  /\ edits = 0
  /\ last = noFile

\* The tasks ts are called: each stream task globs the source tree.
StartTasks(ts) ==
  /\ task' = [t \in Tasks |-> IF t \in ts THEN "running" ELSE task[t]]
  /\ input' = [t \in StreamTasks |-> IF t \in ts THEN Snapshot(t) ELSE input[t]]
  /\ written' = [t \in StreamTasks |-> IF t \in ts THEN {} ELSE written[t]]
  /\ streamed' = [t \in StreamTasks |-> IF t \in ts THEN {} ELSE streamed[t]]
  /\ stylePc' = IF "style" \in ts THEN 1 ELSE stylePc

\* series: a stage is over when every task of it has signalled completion.
StageDoneAny(ts) == \E t \in ts : task[t] = "ok"
StageDoneSettled(ts) == \A t \in ts : task[t] \in {"ok", "failed"}
StageDone(ts) == \A t \in ts : task[t] = "ok"

StartStage ==
  /\ outcome = "running"
  /\ stage < Len(Pipeline(entry))
  /\ stage > 0 => StageDone(Pipeline(entry)[stage])
  /\ stage' = stage + 1
  /\ StartTasks(Pipeline(entry)[stage + 1])
  /\ UNCHANGED <<src, buildDir, entry, outcome, delFailed, edits, last>>
  /\ UNCHANGED ruleVars

PipelineDone ==
  /\ outcome = "running"
  /\ stage = Len(Pipeline(entry))
  /\ StageDone(Pipeline(entry)[stage])
  /\ outcome' = "done"
  /\ UNCHANGED <<src, buildDir, entry, stage, task, input, written, streamed,
                 stylePc, delFailed, edits, last>>
  /\ UNCHANGED ruleVars

\* series and parallel pass the first error on and start nothing more.
PipelineFail ==
  /\ outcome = "running"
  /\ stage > 0
  /\ \E t \in Pipeline(entry)[stage] : task[t] = "failed"
  /\ outcome' = "failed"
  /\ UNCHANGED <<src, buildDir, entry, stage, task, input, written, streamed,
                 stylePc, delFailed, edits, last>>
  /\ UNCHANGED ruleVars

\* clean: the promise of del('build') resolves or rejects.
clean ==
  /\ task["clean"] = "running"
  /\ \E deleted \in BOOLEAN :
       /\ buildDir' = IF deleted THEN {} ELSE buildDir
       /\ delFailed' = ~deleted
       /\ task' = [task EXCEPT !["clean"] = IF deleted THEN "ok" ELSE "failed"]
  /\ UNCHANGED <<input, written, streamed, stylePc>>
  /\ UNCHANGED pipeVars
  /\ UNCHANGED ruleVars
  /\ UNCHANGED envVars

\* The stream of copy, images, html or buildJs runs to its end or its error.
Stream(t) ==
  /\ task[t] = "running"
  /\ LET done == OutAll(t, Processed(t, input[t])) IN
       /\ written' = [written EXCEPT ![t] = done]
       /\ buildDir' = buildDir \cup done
       /\ streamed' = [streamed EXCEPT ![t] = IF t = "html" THEN done ELSE {}]
  /\ task' = [task EXCEPT ![t] = IF Succeeds(t, input[t]) THEN "ok" ELSE "failed"]
  /\ UNCHANGED <<input, stylePc, delFailed>>
  /\ UNCHANGED pipeVars
  /\ UNCHANGED ruleVars
  /\ UNCHANGED envVars

copy == Stream("copy")

images == Stream("images")

html == Stream("html")

buildJs == Stream("buildJs")

\* The file the style stream holds: the one it wrote last.
InHand ==
  {f \in written["style"] :
     f.name = "style.min" \/ \A g \in written["style"] : g.name # "style.min"}

\* One step of the style stream; a file less cannot compile is dropped by
\* plumber and the stream ends with nothing written.
style ==
  /\ task["style"] = "running"
  /\ LET fs == Processed("style", input["style"])
         step == stylePipe[stylePc]
         ends == fs = {} \/ stylePc = Len(stylePipe) IN
       /\ written' = [written EXCEPT !["style"] =
            CASE fs = {} -> {}
              [] step = "compile" -> @ \cup {styleCss(f) : f \in fs}
              [] step = "minify" -> @ \cup {styleMinCss(f) : f \in fs}
              [] OTHER -> @]
       /\ streamed' = [streamed EXCEPT !["style"] =
            IF fs # {} /\ step = "stream" THEN @ \cup InHand ELSE @]
       /\ buildDir' = buildDir \cup written'["style"]
       /\ stylePc' = IF ends THEN 0 ELSE stylePc + 1
       /\ task' = [task EXCEPT !["style"] = IF ends THEN "ok" ELSE "running"]
  /\ UNCHANGED <<input, delFailed>>
  /\ UNCHANGED pipeVars
  /\ UNCHANGED ruleVars
  /\ UNCHANGED envVars

----------------------------------------------------------------------------
\* serve and its watch rules

\* serve: server.init and the four watch calls; it never signals completion.
serve == watching

\* series(task, reload) of rule r is called.
StartRun(r) ==
  /\ phase' = [phase EXCEPT ![r] = "task"]
  /\ runs' = [runs EXCEPT ![r] = @ + 1]
  /\ StartTasks({r})

\* The series of rule r is over: a queued event calls it again.
RunComplete(r) ==
  IF queued[r]
    THEN /\ queued' = [queued EXCEPT ![r] = FALSE]
         /\ StartRun(r)
    ELSE /\ phase' = [phase EXCEPT ![r] = "idle"]
         /\ UNCHANGED <<queued, runs, task, input, written, streamed, stylePc>>

\* The statuses an edit may give a file: pages and images may be removed and
\* added, the two entry files are only changed, the font is left alone.
Editable(f) ==
  CASE f = indexPug -> {"ok", "broken"}
    [] f = aboutPug -> {"ok", "absent"}
    [] f = styleLess -> {"ok", "broken"}
    [] f = scriptJs -> {"ok"}
    [] f = aPng -> {"ok", "broken"}
    [] f = bSvg -> {"ok", "absent"}
    [] OTHER -> {}

Kind(old, new) ==
  IF old = "absent" THEN "add" ELSE IF new = "absent" THEN "unlink" ELSE "change"

\* The developer adds, changes or removes a source file; a rule that watches
\* it (once serve has registered the rules) debounces the event.
Edit ==
  /\ edits < MaxEdits
  /\ \E f \in Universe : \E new \in Editable(f) :
       /\ src[f] # "absent" \/ new # "absent"
       /\ src' = [src EXCEPT ![f] = new]
       /\ last' = f
       /\ LET hit == {r \in Rules : watching /\ Watched(r, f, Kind(src[f], new))} IN
            /\ timer' = [r \in Rules |-> IF r \in hit THEN Debounce(timer[r]) ELSE timer[r]]
            /\ evts' = [r \in Rules |-> IF r \in hit THEN evts[r] + 1 ELSE evts[r]]
            /\ bursts' = [r \in Rules |->
                 IF r \in hit /\ timer[r] = 0 THEN bursts[r] + 1 ELSE bursts[r]]
  /\ edits' = edits + 1
  /\ UNCHANGED <<buildDir, task, input, written, streamed, stylePc, delFailed,
                 phase, queued, runs, reloads>>
  /\ UNCHANGED pipeVars

\* A debounce timeout of rule r expires: onChange starts the rule's series,
\* or queues the event when the series is running.
Fire ==
  \E r \in Rules :
    /\ serve
    /\ timer[r] > 0
    /\ timer' = [timer EXCEPT ![r] = @ - 1]
    /\ IF phase[r] = "idle"
         THEN /\ StartRun(r)
              /\ UNCHANGED queued
         ELSE /\ queued' = [queued EXCEPT ![r] = TRUE]
              /\ UNCHANGED <<phase, runs, task, input, written, streamed, stylePc>>
    /\ UNCHANGED <<buildDir, delFailed, evts, bursts, reloads>>
    /\ UNCHANGED pipeVars
    /\ UNCHANGED envVars

\* The task of rule r has settled: series goes on to reload, or ends with
\* the task's error.
SeriesNext ==
  \E r \in Rules :
    /\ phase[r] = "task"
    /\ task[r] \in {"ok", "failed"}
    /\ IF task[r] = "ok"
         THEN /\ phase' = [phase EXCEPT ![r] = "reload"]
              /\ UNCHANGED <<queued, runs, task, input, written, streamed, stylePc>>
         ELSE RunComplete(r)
    /\ UNCHANGED <<buildDir, delFailed, timer, evts, bursts, reloads>>
    /\ UNCHANGED pipeVars
    /\ UNCHANGED envVars

\* reload: server.reload() and done().
reload ==
  \E r \in Rules :
    /\ phase[r] = "reload"
    /\ reloads' = [reloads EXCEPT ![r] = @ + 1]
    /\ RunComplete(r)
    /\ UNCHANGED <<buildDir, delFailed, timer, evts, bursts>>
    /\ UNCHANGED pipeVars
    /\ UNCHANGED envVars

Next ==
  \/ StartStage
  \/ PipelineDone
  \/ PipelineFail
  \/ clean
  \/ copy
  \/ images
  \/ html
  \/ buildJs
  \/ style
  \/ Edit
  \/ Fire
  \/ SeriesNext
  \/ reload

Spec == Init /\ [][Next]_vars

----------------------------------------------------------------------------
\* Properties

\* C1: in both pipelines a task of stage s > 1 is started (leaves "idle")
\* only in a state where every task of stage s - 1 has signalled completion.
C1_StageOrder ==
  [][\A s \in 2..Len(Pipeline(entry)) : \A t \in Pipeline(entry)[s] :
       (task[t] = "idle" /\ task'[t] # "idle")
         => \A u \in Pipeline(entry)[s - 1] : task[u] = "ok"]_vars

\* serve has been started by the default pipeline.
C1_Witness == entry = "default" /\ stage = 4 /\ task["serve"] = "running"

\* The output files a running stream task may write: those of the files it
\* selected.
Targets(t) == OutAll(t, Selected(input[t]))

\* C4: two different stream tasks that are running at the same time have no
\* output file in common.
C4_DisjointWriters ==
  \A t1, t2 \in StreamTasks :
    (t1 # t2 /\ task[t1] = "running" /\ task[t2] = "running")
      => Targets(t1) \cap Targets(t2) = {}

\* copy and images run in parallel, each with a file to write.
C4_Witness ==
  /\ task["copy"] = "running" /\ Targets("copy") # {}
  /\ task["images"] = "running" /\ Targets("images") # {}

\* C5: once del('build') has failed, no other task is ever started, the
\* pipeline does not end "done", and while it is still "running" its only
\* way on is to fail.
C5_CleanFailureHalts ==
  delFailed =>
    /\ \A t \in Tasks \ {"clean"} : task[t] = "idle"
    /\ outcome # "done"
    /\ outcome = "running" => ENABLED PipelineFail /\ ~ENABLED StartStage

\* clean has failed and the pipeline has ended in error.
C5_Witness == delFailed /\ task["clean"] = "failed" /\ outcome = "failed"

cssFile == styleCss(styleLess)

minFile == styleMinCss(styleLess)

\* C9: in every run of style, style.min.css is written only after
\* style.css, a file is passed to server.stream() only when both have been
\* written, and a run on a stylesheet that compiles ends with both written
\* and style.min.css streamed.
C9_StyleOrder ==
  /\ minFile \in written["style"] => cssFile \in written["style"]
  /\ streamed["style"] # {} => {cssFile, minFile} \subseteq written["style"]
  /\ written["style"] \subseteq buildDir
  /\ (task["style"] = "ok" /\ input["style"][styleLess] = "ok")
       => written["style"] = {cssFile, minFile} /\ streamed["style"] = {minFile}

\* A style run has notified the server.
C9_Witness == streamed["style"] # {} /\ task["style"] = "ok"

\* The files of a run's input that compile.
Good(in) == Selected(in) \ Bad(in)

\* C6: html and style never end in error; an html run that has settled has
\* written the page of every template that compiles, also when another one
\* does not; and under serve, after a run of html or style that met a
\* compilation error, serve keeps watching and the next debounce timeout of
\* the rule starts a new run of the task.
C6_CompileErrorTolerated ==
  /\ [](/\ task["html"] # "failed" /\ task["style"] # "failed"
        /\ task["html"] = "ok" => written["html"] = OutAll("html", Good(input["html"]))
        /\ \A r \in {"html", "style"} : phase[r] = "reload" => task[r] = "ok")
  /\ [][/\ watching => watching'
        /\ \A r \in {"html", "style"} :
             (Bad(input[r]) # {} /\ phase[r] = "idle" /\ timer'[r] < timer[r])
               => phase'[r] = "task" /\ task'[r] = "running" /\ runs'[r] = runs[r] + 1]_vars

\* Under serve, a second html run after a first one was reloaded: it met a
\* broken template, has written the other page and goes on to reload.
C6_Witness ==
  /\ runs["html"] = 2 /\ reloads["html"] = 1
  /\ phase["html"] = "reload"
  /\ Bad(input["html"]) # {}
  /\ written["html"] # {}

\* C3: the events of one burst (each arriving while the timeout of the one
\* before is pending) call onChange once: the runs a rule has started, has
\* queued or has a timeout pending for never exceed its bursts; and a rule
\* that received one burst of two or more events and is idle again has run
\* its task exactly once, and reload exactly once when its task tolerates
\* errors, as style does.
C3_BurstCoalesced ==
  \A r \in Rules :
    /\ runs[r] + (IF queued[r] THEN 1 ELSE 0) + timer[r] <= bursts[r]
    /\ reloads[r] <= runs[r]
    /\ (bursts[r] = 1 /\ evts[r] >= 2 /\ timer[r] = 0 /\ phase[r] = "idle")
         => runs[r] = 1 /\ (r \in {"html", "style", "buildJs"} => reloads[r] = 1)

\* The stylesheet was saved twice within the window; style and reload ran once.
C3_Witness ==
  /\ bursts["style"] = 1 /\ evts["style"] = 2
  /\ timer["style"] = 0 /\ phase["style"] = "idle"
  /\ runs["style"] = 1 /\ reloads["style"] = 1

\* C2: whenever a rule is idle with no timeout pending, every event it
\* received has led to a run of its task and every run of its task was
\* followed by a run of reload; reload runs only after the task has completed.
C2_EventRunsTaskThenReload ==
  \A r \in Rules :
    /\ phase[r] = "reload" => task[r] = "ok"
    /\ (phase[r] = "idle" /\ timer[r] = 0)
         => (evts[r] > 0 => runs[r] > 0) /\ reloads[r] = runs[r]

\* C7: images never ends in error, and once it has settled every image it
\* selected has its file under build/img.
C7_ImagesBestEffort ==
  /\ task["images"] # "failed"
  /\ task["images"] = "ok"
       => \A f \in Selected(input["images"]) : imagesOut(f) \subseteq buildDir

\* The part of the output tree a task owns.
Owns(t, o) ==
  CASE t = "copy" -> Len(o.dirs) >= 2 /\ SubSeq(o.dirs, 1, 2) = <<"build", "fonts">>
    [] t = "images" -> Len(o.dirs) >= 2 /\ SubSeq(o.dirs, 1, 2) = <<"build", "img">>
    [] t = "html" -> o.dirs = <<"build">> /\ o.ext = "html"
    [] t = "style" -> o.dirs = <<"build", "css">>
    [] t = "buildJs" -> o.dirs = <<"build", "js">>
    [] OTHER -> FALSE

\* C8: whenever no stream task is running, the part of the output tree owned
\* by a task whose last run succeeded without error holds exactly the files
\* the task derives from the source files that run selected.
C8_OutputFunctionOfSource ==
  (\A u \in StreamTasks : task[u] # "running")
    => \A t \in StreamTasks :
         (task[t] = "ok" /\ Bad(input[t]) = {})
           => {o \in buildDir : Owns(t, o)} = OutAll(t, Selected(input[t]))

\* C10: under serve, an edit of a file that the input glob of html, style,
\* buildJs or images matches is an event of the watch rule of that task.
C10_WatchCoversInputs ==
  [][(edits' = edits + 1 /\ watching)
       => \A r \in Rules :
            MatchesAny(Globs(r), last') => timer'[r] > 0 /\ evts'[r] = evts[r] + 1]_vars

==========================================================================
